---- MODULE Spec2Model ----
(***************************************************************************)
(* EventsHandler of the disk-encrypt entry plugin                          *)
(* (dfmplugin-disk-encrypt-entry/events/eventshandler.cpp).                *)
(*                                                                         *)
(* The handler object owns two QMap registries, encryptDialogs and         *)
(* decryptDialogs, from device to a progress dialog.  Six slots receive    *)
(* the daemon's notifications, one hook answers the request for a device   *)
(* password.  Everything runs on the GUI thread; a modal dialog (exec)     *)
(* suspends its handler and lets the event loop dispatch further           *)
(* notifications nested inside it.                                         *)
(***************************************************************************)
EXTENDS Integers, Sequences, FiniteSets, TLC

(* ------------------------------ bounds -------------------------------- *)

\* size of the pool of dialog objects (heap cells for EncryptProcessDialog)
MaxDialogs == 2

\* nesting depth of modal dialogs (nested event loops)
MaxDepth == 2

\* height of QApplication's override-cursor stack
MaxCursor == 1

\* length of the strings typed by the user or produced by the TPM
MaxStrLen == 1

(* ------------------------------ domains ------------------------------- *)

Devs == {"/dev/sda1", "/dev/sdb1"}

Ids == 1..MaxDialogs

\* the progress values the daemon reports: two that differ
Progress == {0, 1}

Chars == {"a", "b"}

\* QString values; the empty sequence is the empty string
Strs == UNION {[1..n -> Chars] : n \in 0..MaxStrLen}

NoDev == "nodev"

VARIABLES
    encryptDialogs,   \* QMap<QString, EncryptProcessDialog *>: set of <<dev, id>>
    decryptDialogs,   \* QMap<QString, EncryptProcessDialog *>: set of <<dev, id>>
    dialogs,          \* the dialog objects: id -> [st, progress, visible, conn]
    overrideCursor,   \* height of the override-cursor stack (busy indicator)
    modalStack,       \* the modal dialogs open, innermost last
    crashed,          \* the process died on a dangling dialog pointer
    last,             \* what the last Encrypt/Decrypt notification did to its registry
    inflight,         \* <<kind, dev>> with progress received and no result since
    acq,              \* the onAcquireDevicePwd call in progress or returned last
    emitted           \* what the last step presented and sent: [dialog, reboot]

vars == <<encryptDialogs, decryptDialogs, dialogs, overrideCursor, modalStack,
          crashed, last, inflight, acq, emitted>>

(* ------------------------------- QMap --------------------------------- *)

\* QMap::contains
Contains(map, dev) == \E e \in map : e[1] = dev

\* QMap::value (of a key the map contains)
Value(map, dev) == (CHOOSE e \in map : e[1] = dev)[2]

\* a remove that erases the entries of every key
RemoveEvery(map, dev) == {}

\* QMap::remove: erases every entry of the key, nothing when there is none
Remove(map, dev) == {e \in map : e[1] # dev}

\* QMap::insert: replaces the value of a key already there
Insert(map, dev, id) == Remove(map, dev) \cup {<<dev, id>>}

\* QMap::isEmpty
IsEmpty(map) == Cardinality(map) = 0

(* ------------------------------ dialogs ------------------------------- *)

FreeDialog == [st |-> "free", progress |-> 0, visible |-> FALSE, conn |-> NoDev]

\* the dialog object is constructed and not yet destructed
Alive(id) == dialogs[id].st \in {"alive", "deferred"}

Referenced(id) == \E e \in encryptDialogs \cup decryptDialogs : e[2] = id

\* operator new: a cell that holds no object and that no registry points to
CanAllocate == \E i \in Ids : dialogs[i].st = "free" /\ ~Referenced(i)

NewId == CHOOSE i \in Ids :
            /\ dialogs[i].st = "free" /\ ~Referenced(i)
            /\ \A j \in Ids : (dialogs[j].st = "free" /\ ~Referenced(j)) => i <= j

\* ~EncryptProcessDialog: the object is gone and its cell is free again
Destroyed(dlgs, id) == [dlgs EXCEPT ![id] = FreeDialog]

\* the lambda connected to EncryptProcessDialog::destroyed,
\* [this, dev] { encryptDialogs.remove(dev); }; conn is the captured dev of the
\* dialog destructed, NoDev for a dialog nothing was connected to
DestroyedSlot(map, conn) == IF conn # NoDev THEN Remove(map, conn) ELSE map

\* new EncryptProcessDialog(title)
Constructed(dlgs, id, conn) ==
    [dlgs EXCEPT ![id] = [st |-> "alive", progress |-> 0, visible |-> FALSE,
                          conn |-> conn]]

\* dlg->updateProgress(progress); dlg->show();
UpdateAndShow(dlgs, id, progress) ==
    [dlgs EXCEPT ![id].progress = progress, ![id].visible = TRUE]

\* QObject::deleteLater: the object lives on until the event loop deletes it
DeleteLater(dlgs, id) == [dlgs EXCEPT ![id].st = "deferred"]

(* ------------------------------ cursor -------------------------------- *)

\* QApplication::restoreOverrideCursor: pops the stack, nothing when empty
RestoreOverrideCursor(n) == IF n > 0 THEN n - 1 ELSE 0

(* ------------------------------- modals ------------------------------- *)

\* modalStack holds the kind of each modal open: "outcome" for
\* dialog_utils::showDialog of a result handler, "reboot" for the DDialog of
\* showRebootOnPreencrypted / showRebootOnDecrypted, "unlock" for the
\* UnlockPartitionDialog, "wrongcred" for the advisory of the post-check

\* what exec() of a modal returns: -1 closed, 0 first button or rejected,
\* 1 second button or accepted
ExecRets == {-1, 0, 1}

Push(kind) == Append(modalStack, kind)

Top == modalStack[Len(modalStack)]

Pop == SubSeq(modalStack, 1, Len(modalStack) - 1)

CanOpenModal == Len(modalStack) < MaxDepth

(* ---------------------------- result codes ---------------------------- *)

kSuccess == 0

kUserCancelled == 1

kErrorWrongPassphrase == 2

kErrorChangePassphraseFailed == 3

kRebootRequired == 4

\* width of int in the model
IntBits == 4

\* INT_MIN
IntMin == 0 - 2 ^ (IntBits - 1)

\* the codes the daemon may send: the known ones negated, an unknown
\* negative one, a positive one, and the least int
Codes == ((0 - (kRebootRequired + 1))..1) \cup {IntMin}

\* every int
Ints == IntMin..(0 - IntMin - 1)

\* a switch on the code as it is
NotNegated(code) == code

\* -code as the switch statements of the presenters compute it: the negation
\* of the least int wraps to itself, and a build that compares code with the
\* negated case labels instead takes the same branch
Negate(code) == IF code = IntMin THEN IntMin ELSE 0 - code

(* --------------------------- what is presented ------------------------ *)

\* dialog_utils::DialogType
kInfo == "kInfo"

kError == "kError"

\* a dialog as it is presented: kind is its modal kind, msg the message with
\* its placeholders, args the numbers formatted into it, type the icon
Dialog(kind, title, msg, args, type) ==
    [kind |-> kind, title |-> title, msg |-> msg, args |-> args, type |-> type]

NoDialog == Dialog("none", "", "", <<>>, "none")

\* a step that presents nothing and sends nothing
NoOutput == [dialog |-> NoDialog, reboot |-> 0]

\* a step that presents dialog d
Presents(d) == [dialog |-> d, reboot |-> 0]

\* a reboot request that is sent twice
requestRebootTwice == [dialog |-> NoDialog, reboot |-> 2]

\* EventsHandler::requestReboot: one asyncCall("RequestReboot")
requestReboot == [dialog |-> NoDialog, reboot |-> 1]

\* lines 84-95: the dialog of onEncryptResult
EncryptResultDialog(code) ==
    IF code # 0
    THEN Dialog("outcome", "Encrypt failed",
                "Device %1 encrypt failed, please see log for more information.(%2)",
                <<code>>, kError)
    ELSE Dialog("outcome", "Encrypt done", "Device %1 has been encrypted",
                <<>>, kInfo)

\* EventsHandler::showPreEncryptError
showPreEncryptError(code) ==
    LET c == Negate(code)
    IN  IF c = kSuccess
        THEN Dialog("outcome", "Preencrypt done",
                    "Device %1 has been preencrypt, please reboot to finish encryption.",
                    <<>>, kInfo)
        ELSE IF c = kUserCancelled
        THEN Dialog("outcome", "Encrypt disk", "User cancelled operation",
                    <<>>, kInfo)
        ELSE Dialog("outcome", "Preencrypt failed",
                    "Device %1 preencrypt failed, please see log for more information.(%2)",
                    <<code>>, kError)

\* EventsHandler::showDecryptError
showDecryptError(code) ==
    LET c == Negate(code)
    IN  IF c = kSuccess
        THEN Dialog("outcome", "Decrypt done", "Device %1 has been decrypted",
                    <<>>, kInfo)
        ELSE IF c = kUserCancelled
        THEN Dialog("outcome", "Decrypt disk", "User cancelled operation",
                    <<>>, kInfo)
        ELSE IF c = kErrorWrongPassphrase
        THEN Dialog("outcome", "Decrypt disk", "Wrong passpharse or PIN",
                    <<>>, kError)
        ELSE Dialog("outcome", "Decrypt failed",
                    "Device %1 Decrypt failed, please see log for more information.(%2)",
                    <<code>>, kError)

\* EventsHandler::showChgPwdError
showChgPwdError(code) ==
    LET c == Negate(code)
    IN  IF c = kSuccess
        THEN Dialog("outcome", "Change passphrase done",
                    "%1's passphrase has been changed", <<>>, kInfo)
        ELSE IF c = kUserCancelled
        THEN Dialog("outcome", "Change passphrase", "User cancelled operation",
                    <<>>, kInfo)
        ELSE IF c = kErrorChangePassphraseFailed
        THEN Dialog("outcome", "Change passphrase failed",
                    "Wrong passpharse or PIN", <<>>, kError)
        ELSE Dialog("outcome", "Change passphrase failed",
                    "Device %1 change passphrase failed, please see log for more information.(%2)",
                    <<code>>, kError)

\* the DDialog of showRebootOnPreencrypted
RebootOnPreencryptedDialog ==
    Dialog("reboot", "Preencrypt done",
           "Device %1 has been preencrypt, please reboot to finish encryption.",
           <<>>, "dialog-information")

\* the DDialog of showRebootOnDecrypted
RebootOnDecryptedDialog ==
    Dialog("reboot", "Decrypt device", "Please reboot to decrypt device %1.",
           <<>>, "dialog-information")

\* lines 168-178: the advisory of the post-check of onAcquireDevicePwd
WrongCredDialog(type) ==
    Dialog("wrongcred",
           IF type = "kTPMAndPIN" THEN "Wrong PIN"
           ELSE IF type = "kPasswordOnly" THEN "Wrong passphrase"
           ELSE "TPM error",
           "Please use recovery key to unlock device.", <<>>, kInfo)

(* --------------------------- the registries --------------------------- *)

\* a query that looks at the Encrypt registry alone
hasEncryptJobOnly == ~IsEmpty(encryptDialogs)

\* EventsHandler::hasEnDecryptJob
hasEnDecryptJob == ~(IsEmpty(encryptDialogs) /\ IsEmpty(decryptDialogs))

\* the process dies inside the handler of a notification: the notification
\* was received (received is inflight after it), nothing else is left of it
Crash(received) ==
    /\ crashed' = TRUE
    /\ inflight' = received
    /\ emitted' = NoOutput
    /\ UNCHANGED <<encryptDialogs, decryptDialogs, dialogs, overrideCursor,
                   modalStack, last, acq>>

\* line 120: the branch that constructs a dialog
EncryptNeedsDialog(dev) == ~Contains(encryptDialogs, dev)

\* EventsHandler::onEncryptProgress
onEncryptProgress(dev, progress) ==
    /\ ~crashed
    /\ EncryptNeedsDialog(dev) => CanAllocate
    /\ LET create == EncryptNeedsDialog(dev)
           map1  == IF create THEN Insert(encryptDialogs, dev, NewId)
                    ELSE encryptDialogs
           dlgs1 == IF create THEN Constructed(dialogs, NewId, dev) ELSE dialogs
           dlg   == Value(map1, dev)
           alive == dlgs1[dlg].st \in {"alive", "deferred"}
       IN  \/ \* a call through a dangling pointer may end the process
              /\ ~alive
              /\ Crash(inflight \cup {<<"Encrypt", dev>>})
           \/ \* or, like the call on a live dialog, return
              /\ last' = IF create THEN "created" ELSE "updated"
              /\ inflight' = inflight \cup {<<"Encrypt", dev>>}
              /\ encryptDialogs' = map1
              /\ dialogs' = IF alive THEN UpdateAndShow(dlgs1, dlg, progress)
                            ELSE dlgs1
              /\ overrideCursor' = IF create
                                   THEN RestoreOverrideCursor(overrideCursor)
                                   ELSE overrideCursor
              /\ emitted' = NoOutput
              /\ UNCHANGED <<decryptDialogs, modalStack, crashed, acq>>

\* line 136: the branch that constructs a dialog
DecryptNeedsDialog(dev) == ~Contains(decryptDialogs, dev)

\* EventsHandler::onDecryptProgress
onDecryptProgress(dev, progress) ==
    /\ ~crashed
    /\ DecryptNeedsDialog(dev) => CanAllocate
    /\ LET create == DecryptNeedsDialog(dev)
           map1  == IF create THEN Insert(decryptDialogs, dev, NewId)
                    ELSE decryptDialogs
           dlgs1 == IF create THEN Constructed(dialogs, NewId, NoDev) ELSE dialogs
           dlg   == Value(map1, dev)
           alive == dlgs1[dlg].st \in {"alive", "deferred"}
       IN  \/ \* a call through a dangling pointer may end the process
              /\ ~alive
              /\ Crash(inflight \cup {<<"Decrypt", dev>>})
           \/ \* or, like the call on a live dialog, return
              /\ last' = IF create THEN "created" ELSE "updated"
              /\ inflight' = inflight \cup {<<"Decrypt", dev>>}
              /\ decryptDialogs' = map1
              /\ dialogs' = IF alive THEN UpdateAndShow(dlgs1, dlg, progress)
                            ELSE dlgs1
              /\ overrideCursor' = IF create
                                   THEN RestoreOverrideCursor(overrideCursor)
                                   ELSE overrideCursor
              /\ emitted' = NoOutput
              /\ UNCHANGED <<encryptDialogs, modalStack, crashed, acq>>

\* EventsHandler::onEncryptResult: delete the dialog (its destroyed signal
\* runs the connected lambda), remove the entry, show the outcome dialog
onEncryptResult(dev, code) ==
    /\ ~crashed
    /\ CanOpenModal
    /\ LET had   == Contains(encryptDialogs, dev)
           dlg   == Value(encryptDialogs, dev)
           alive == Alive(dlg)
       IN  \/ \* delete of a dangling pointer may end the process
              /\ had /\ ~alive
              /\ Crash(inflight \ {<<"Encrypt", dev>>})
           \/ /\ last' = IF had THEN "removed" ELSE "absent"
              /\ inflight' = inflight \ {<<"Encrypt", dev>>}
              /\ modalStack' = Push(EncryptResultDialog(code).kind)
              /\ emitted' = Presents(EncryptResultDialog(code))
              /\ encryptDialogs' =
                    IF ~had THEN encryptDialogs
                    ELSE IF alive
                    THEN Remove(DestroyedSlot(encryptDialogs, dialogs[dlg].conn), dev)
                    ELSE Remove(encryptDialogs, dev)
              /\ dialogs' = IF had /\ alive THEN Destroyed(dialogs, dlg) ELSE dialogs
              /\ overrideCursor' = RestoreOverrideCursor(overrideCursor)
              /\ UNCHANGED <<decryptDialogs, crashed, acq>>

\* line 106: the result that asks for a reboot
IsRebootRequired(code) == code = 0 - kRebootRequired

\* lines 106-109: the dialog of onDecryptResult
DecryptResultDialog(code) ==
    IF IsRebootRequired(code) THEN RebootOnDecryptedDialog
    ELSE showDecryptError(code)

\* EventsHandler::onDecryptResult: deleteLater on the dialog, remove the
\* entry, show the reboot confirmation or the outcome dialog
onDecryptResult(dev, code) ==
    /\ ~crashed
    /\ CanOpenModal
    /\ LET had   == Contains(decryptDialogs, dev)
           dlg   == Value(decryptDialogs, dev)
           alive == Alive(dlg)
       IN  \/ \* deleteLater through a dangling pointer may end the process
              /\ had /\ ~alive
              /\ Crash(inflight \ {<<"Decrypt", dev>>})
           \/ /\ last' = IF had THEN "removed" ELSE "absent"
              /\ inflight' = inflight \ {<<"Decrypt", dev>>}
              /\ modalStack' = Push(DecryptResultDialog(code).kind)
              /\ emitted' = Presents(DecryptResultDialog(code))
              /\ decryptDialogs' = IF had THEN Remove(decryptDialogs, dev)
                                   ELSE decryptDialogs
              /\ dialogs' = IF had /\ alive THEN DeleteLater(dialogs, dlg)
                            ELSE dialogs
              /\ overrideCursor' = RestoreOverrideCursor(overrideCursor)
              /\ UNCHANGED <<encryptDialogs, crashed, acq>>

\* a handler that takes every code to the presenter
PreencryptAlwaysPresenter(code) == showPreEncryptError(code)

\* lines 67-73: the dialog of onPreencryptResult
PreencryptResultDialog(code) ==
    IF code # kSuccess THEN showPreEncryptError(code)
    ELSE RebootOnPreencryptedDialog

\* EventsHandler::onPreencryptResult
onPreencryptResult(dev, code) ==
    /\ ~crashed
    /\ CanOpenModal
    /\ overrideCursor' = RestoreOverrideCursor(overrideCursor)
    /\ modalStack' = Push(PreencryptResultDialog(code).kind)
    /\ emitted' = Presents(PreencryptResultDialog(code))
    /\ UNCHANGED <<encryptDialogs, decryptDialogs, dialogs, crashed, last,
                   inflight, acq>>

\* EventsHandler::onChgPassphraseResult
onChgPassphraseResult(dev, code) ==
    /\ ~crashed
    /\ CanOpenModal
    /\ overrideCursor' = RestoreOverrideCursor(overrideCursor)
    /\ modalStack' = Push(showChgPwdError(code).kind)
    /\ emitted' = Presents(showChgPwdError(code))
    /\ UNCHANGED <<encryptDialogs, decryptDialogs, dialogs, crashed, last,
                   inflight, acq>>

(* -------------------- the dialogs' own life cycle --------------------- *)

\* a dialog object is destructed: its destroyed signal runs the lambda
\* connected to it, if any
Destruct(id) ==
    /\ encryptDialogs' = DestroyedSlot(encryptDialogs, dialogs[id].conn)
    /\ dialogs' = Destroyed(dialogs, id)
    /\ emitted' = NoOutput
    /\ UNCHANGED <<decryptDialogs, overrideCursor, modalStack, crashed, last,
                   inflight, acq>>

\* the event loop deletes a dialog that deleteLater was called on
DeferredDelete(id) ==
    /\ ~crashed
    /\ dialogs[id].st = "deferred"
    /\ Destruct(id)

\* a progress dialog is destroyed with no result notification
DialogDestroyed(id) ==
    /\ ~crashed
    /\ dialogs[id].st = "alive"
    /\ Destruct(id)

\* QApplication::setOverrideCursor(Qt::WaitCursor), by the code that starts
\* an operation
SetOverrideCursor ==
    /\ ~crashed
    /\ overrideCursor < MaxCursor
    /\ overrideCursor' = overrideCursor + 1
    /\ emitted' = NoOutput
    /\ UNCHANGED <<encryptDialogs, decryptDialogs, dialogs, modalStack, crashed,
                   last, inflight, acq>>

(* --------------------------- closing modals --------------------------- *)

\* a handler that erases the Encrypt registry after its outcome dialog closed
CloseOutcomeThenClear(choice) ==
    /\ ~crashed
    /\ modalStack # <<>> /\ Top = "outcome"
    /\ modalStack' = Pop
    /\ emitted' = NoOutput
    /\ encryptDialogs' = {}
    /\ UNCHANGED <<decryptDialogs, dialogs, overrideCursor, crashed, last,
                   inflight, acq>>

\* dialog_utils::showDialog returns: the handler that showed it returns
CloseOutcome(choice) ==
    /\ ~crashed
    /\ modalStack # <<>> /\ Top = "outcome"
    /\ modalStack' = Pop
    /\ emitted' = NoOutput
    /\ UNCHANGED <<encryptDialogs, decryptDialogs, dialogs, overrideCursor,
                   crashed, last, inflight, acq>>

\* showRebootOnPreencrypted / showRebootOnDecrypted after dlg.exec()
\* returned choice: if (dlg.exec() == 1) requestReboot();
CloseReboot(choice) ==
    /\ ~crashed
    /\ modalStack # <<>> /\ Top = "reboot"
    /\ modalStack' = Pop
    /\ emitted' = IF choice = 1 THEN requestReboot ELSE NoOutput
    /\ UNCHANGED <<encryptDialogs, decryptDialogs, dialogs, overrideCursor,
                   crashed, last, inflight, acq>>

(* ------------------------ the presenters alone ------------------------ *)

Presenters == {"showPreEncryptError", "showDecryptError", "showChgPwdError"}

\* the dialog presenter p shows for code
PresenterDialog(p, code) ==
    IF p = "showPreEncryptError" THEN showPreEncryptError(code)
    ELSE IF p = "showDecryptError" THEN showDecryptError(code)
    ELSE showChgPwdError(code)

\* a call of one of the three presenters with any int: it ends in
\* dialog_utils::showDialog(title, msg, type)
CallPresenter(p, code) ==
    /\ ~crashed
    /\ CanOpenModal
    /\ modalStack' = Push(PresenterDialog(p, code).kind)
    /\ emitted' = Presents(PresenterDialog(p, code))
    /\ UNCHANGED <<encryptDialogs, decryptDialogs, dialogs, overrideCursor,
                   crashed, last, inflight, acq>>

(* ----------------------- credential acquisition ----------------------- *)

\* SecKeyType as device_utils::encKeyType may return it; kUnknown stands for
\* every value that is none of the three
KeyTypes == {"kPasswordOnly", "kTPMAndPIN", "kTPMOnly", "kUnknown"}

\* UnlockPartitionDialog::UnlockType, the first component of getUnlockKey()
UnlockTypes == {"kPwd", "kPin", "kRec"}

\* a call of tpm_passphrase_utils::getPassphraseFromTPM and what it returned
TpmCall(dev, aux, out) == [dev |-> dev, aux |-> aux, out |-> out]

\* getUnlockKey() of a dialog nobody accepted
NoKey == <<"kPwd", <<>>>>

\* the call of onAcquireDevicePwd in progress or returned last: its
\* arguments (dev, pwdNull, cancNull, the slots' content on entry pwd0 and
\* canc0), the key type resolved, the slots' content now (pwd, cancelled),
\* the value returned (ret, at pc = "done"), and what it did on the way: the
\* unlock dialogs and advisories shown, the TPM calls, whether the unlock
\* dialog was dismissed, the key it was accepted with, and the slots' content
\* when the branch returned
AcqIdle ==
    [pc |-> "idle", dev |-> NoDev, type |-> "kUnknown",
     pwdNull |-> FALSE, cancNull |-> FALSE, pwd0 |-> <<>>, canc0 |-> FALSE,
     pwd |-> <<>>, cancelled |-> FALSE, ret |-> FALSE,
     prompts |-> 0, advisories |-> 0, tpm |-> <<>>,
     dismissed |-> FALSE, key |-> NoKey,
     branchPwd |-> <<>>, branchCancelled |-> FALSE]

\* EventsHandler::acquirePassphrase after dlg.exec() returned ret and
\* getUnlockKey() is key: the passphrase returned and the cancelled flag
acquirePassphrase(ret, key, cancelled) ==
    IF ret # 1
    THEN [pwd |-> <<>>, cancelled |-> TRUE, tpm |-> <<>>]
    ELSE [pwd |-> key[2], cancelled |-> cancelled, tpm |-> <<>>]

\* a PIN branch that takes every accepted key to the TPM derivation
acquirePassphraseByPINAlwaysTPM(dev, ret, key, out, cancelled) ==
    IF ret # 1
    THEN [pwd |-> <<>>, cancelled |-> TRUE, tpm |-> <<>>]
    ELSE [pwd |-> out, cancelled |-> cancelled,
          tpm |-> <<TpmCall(dev, key[2], out)>>]

\* EventsHandler::acquirePassphraseByPIN after dlg.exec() returned ret; out
\* is what the TPM derivation returns if it is called
acquirePassphraseByPIN(dev, ret, key, out, cancelled) ==
    IF ret # 1
    THEN [pwd |-> <<>>, cancelled |-> TRUE, tpm |-> <<>>]
    ELSE IF key[1] = "kPin"
    THEN [pwd |-> out, cancelled |-> cancelled,
          tpm |-> <<TpmCall(dev, key[2], out)>>]
    ELSE [pwd |-> key[2], cancelled |-> cancelled, tpm |-> <<>>]

\* a TPM branch that reports a cancellation of its own
acquirePassphraseByTPMCancels(dev, out, cancelled) ==
    [pwd |-> out, cancelled |-> TRUE, tpm |-> <<TpmCall(dev, <<>>, out)>>]

\* EventsHandler::acquirePassphraseByTPM
acquirePassphraseByTPM(dev, out, cancelled) ==
    [pwd |-> out, cancelled |-> cancelled, tpm |-> <<TpmCall(dev, <<>>, out)>>]

\* a post-check that looks at the passphrase alone
NeedsAdvisoryIfEmpty(pwd, cancelled) == pwd = <<>>

\* line 168: the post-check's condition
NeedsAdvisory(pwd, cancelled) == pwd = <<>> /\ ~cancelled

\* lines 168-182 up to showDialog: a is the call with the branch's result
\* stored in the slots, stack the modals open when the branch has returned
PostCheck(a, stack) ==
    IF NeedsAdvisory(a.pwd, a.cancelled)
    THEN /\ acq' = [a EXCEPT !.pc = "advisory", !.advisories = @ + 1]
         /\ modalStack' = Append(stack, WrongCredDialog(a.type).kind)
         /\ emitted' = Presents(WrongCredDialog(a.type))
    ELSE /\ acq' = [a EXCEPT !.pc = "done", !.ret = TRUE]
         /\ modalStack' = stack
         /\ emitted' = NoOutput

\* a check that forgets the cancelled slot
RefusedUnlessCancelledNull(pwdNull, cancNull, type) ==
    pwdNull \/ type \notin {"kTPMAndPIN", "kTPMOnly", "kPasswordOnly"}

\* lines 150-151 and 164-165: the calls that are refused
Refused(pwdNull, cancNull, type) ==
    pwdNull \/ cancNull \/ type \notin {"kTPMAndPIN", "kTPMOnly", "kPasswordOnly"}

\* EventsHandler::onAcquireDevicePwd up to its return or its first modal
onAcquireDevicePwd(dev, pwdNull, cancNull, pwd0, canc0, type) ==
    /\ ~crashed
    /\ acq.pc \in {"idle", "done"}
    /\ CanOpenModal
    /\ LET a0 == [AcqIdle EXCEPT !.dev = dev, !.type = type,
                     !.pwdNull = pwdNull, !.cancNull = cancNull,
                     !.pwd0 = pwd0, !.canc0 = canc0,
                     !.pwd = pwd0, !.cancelled = canc0]
       IN  IF Refused(pwdNull, cancNull, type)
           THEN /\ acq' = [a0 EXCEPT !.pc = "done", !.ret = FALSE]
                /\ emitted' = NoOutput
                /\ UNCHANGED modalStack
           ELSE IF type = "kTPMOnly"
           THEN \E out \in Strs :
                  LET r == acquirePassphraseByTPM(dev, out, canc0)
                      a == [a0 EXCEPT !.pwd = r.pwd, !.cancelled = r.cancelled,
                               !.tpm = r.tpm, !.branchPwd = r.pwd,
                               !.branchCancelled = r.cancelled]
                  IN  PostCheck(a, modalStack)
           ELSE /\ acq' = [a0 EXCEPT !.pc = "prompt", !.prompts = @ + 1]
                /\ emitted' = NoOutput
                /\ modalStack' = Push("unlock")
    /\ UNCHANGED <<encryptDialogs, decryptDialogs, dialogs, overrideCursor,
                   crashed, last, inflight>>

\* the UnlockPartitionDialog closes: the branch returns and the post-check runs
CloseUnlock(ret, key, out) ==
    /\ ~crashed
    /\ modalStack # <<>> /\ Top = "unlock"
    /\ LET r == IF acq.type = "kTPMAndPIN"
                THEN acquirePassphraseByPIN(acq.dev, ret, key, out, acq.cancelled)
                ELSE acquirePassphrase(ret, key, acq.cancelled)
           a == [acq EXCEPT !.pwd = r.pwd, !.cancelled = r.cancelled,
                    !.tpm = r.tpm, !.dismissed = (ret # 1),
                    !.key = IF ret = 1 THEN key ELSE NoKey,
                    !.branchPwd = r.pwd, !.branchCancelled = r.cancelled]
       IN  PostCheck(a, Pop)
    /\ UNCHANGED <<encryptDialogs, decryptDialogs, dialogs, overrideCursor,
                   crashed, last, inflight>>

\* the advisory of the post-check closes: *cancelled = true; return true
CloseWrongCred(choice) ==
    /\ ~crashed
    /\ modalStack # <<>> /\ Top = "wrongcred"
    /\ modalStack' = Pop
    /\ emitted' = NoOutput
    /\ acq' = [acq EXCEPT !.pc = "done", !.cancelled = TRUE, !.ret = TRUE]
    /\ UNCHANGED <<encryptDialogs, decryptDialogs, dialogs, overrideCursor,
                   crashed, last, inflight>>

(* --------------------------- specification ---------------------------- *)

Init ==
    /\ encryptDialogs = {}
    /\ decryptDialogs = {}
    /\ dialogs = [i \in Ids |-> FreeDialog]
    /\ overrideCursor = 0
    /\ modalStack = <<>>
    /\ crashed = FALSE
    /\ last = "none"
    /\ inflight = {}
    /\ acq = AcqIdle
    /\ emitted = NoOutput

\* the notifications of the daemon, the dialogs' life cycle and the modals
\* the notification handlers open
NextDaemon ==
    \/ \E dev \in Devs, progress \in Progress : onEncryptProgress(dev, progress)
    \/ \E dev \in Devs, progress \in Progress : onDecryptProgress(dev, progress)
    \/ \E dev \in Devs, code \in Codes : onEncryptResult(dev, code)
    \/ \E dev \in Devs, code \in Codes : onDecryptResult(dev, code)
    \/ \E dev \in Devs, code \in Codes : onPreencryptResult(dev, code)
    \/ \E dev \in Devs, code \in Codes : onChgPassphraseResult(dev, code)
    \/ \E id \in Ids : DeferredDelete(id)
    \/ \E id \in Ids : DialogDestroyed(id)
    \/ \E choice \in ExecRets : CloseOutcome(choice)
    \/ \E choice \in ExecRets : CloseReboot(choice)

\* the hook and the modals it opens
NextAcquire ==
    \/ \E dev \in Devs, pwdNull \in BOOLEAN, cancNull \in BOOLEAN,
          pwd0 \in Strs, canc0 \in BOOLEAN, type \in KeyTypes :
          /\ pwdNull => pwd0 = <<>>
          /\ cancNull => canc0 = FALSE
          /\ onAcquireDevicePwd(dev, pwdNull, cancNull, pwd0, canc0, type)
    \/ \E ret \in ExecRets, key \in UnlockTypes \X Strs, out \in Strs :
          /\ ret # 1 => key = NoKey
          /\ CloseUnlock(ret, key, out)
    \/ \E choice \in ExecRets : CloseWrongCred(choice)

\* the code that starts an operation sets the busy cursor
NextCursor == SetOverrideCursor

\* one result code of each kind the Encrypt and Decrypt handlers tell apart:
\* success, a failure, reboot required
RegistryCodes == {kSuccess, 0 - kUserCancelled, 0 - kRebootRequired}

\* the notifications that reach the registries, the dialogs' life cycle and
\* the modals of the result handlers
NextRegistry ==
    \/ \E dev \in Devs, progress \in Progress : onEncryptProgress(dev, progress)
    \/ \E dev \in Devs, progress \in Progress : onDecryptProgress(dev, progress)
    \/ \E dev \in Devs, code \in RegistryCodes : onEncryptResult(dev, code)
    \/ \E dev \in Devs, code \in RegistryCodes : onDecryptResult(dev, code)
    \/ \E id \in Ids : DeferredDelete(id)
    \/ \E id \in Ids : DialogDestroyed(id)
    \/ \E choice \in ExecRets : CloseOutcome(choice)
    \/ \E choice \in ExecRets : CloseReboot(choice)

\* the Decrypt notifications alone, with every code, the life cycle of their
\* dialogs and the modals of the result handler
NextDecrypt ==
    \/ \E dev \in Devs, progress \in Progress : onDecryptProgress(dev, progress)
    \/ \E dev \in Devs, code \in Codes : onDecryptResult(dev, code)
    \/ \E id \in Ids : DeferredDelete(id)
    \/ \E id \in Ids : DialogDestroyed(id)
    \/ \E choice \in ExecRets : CloseOutcome(choice)
    \/ \E choice \in ExecRets : CloseReboot(choice)

\* two codes that between them make every result handler open each kind of
\* dialog it can open
LayerCodes == {kSuccess, 0 - kRebootRequired}

\* the six notification handlers, with one progress value and LayerCodes, the
\* deferred deletes and the modals the handlers open
NextHandlers ==
    \/ \E dev \in Devs : onEncryptProgress(dev, 1)
    \/ \E dev \in Devs : onDecryptProgress(dev, 1)
    \/ \E dev \in Devs, code \in LayerCodes : onEncryptResult(dev, code)
    \/ \E dev \in Devs, code \in LayerCodes : onDecryptResult(dev, code)
    \/ \E dev \in Devs, code \in LayerCodes : onPreencryptResult(dev, code)
    \/ \E dev \in Devs, code \in LayerCodes : onChgPassphraseResult(dev, code)
    \/ \E id \in Ids : DeferredDelete(id)
    \/ \E choice \in ExecRets : CloseOutcome(choice)
    \/ \E choice \in ExecRets : CloseReboot(choice)

\* an empty and a non-empty string
HookStrs == {<<>>, <<"a">>}

\* the hook for one device with a password: the prompt, accepted with a text
\* or with none, or dismissed, and the advisory
NextHook ==
    \/ onAcquireDevicePwd("/dev/sda1", FALSE, FALSE, <<>>, FALSE, "kPasswordOnly")
    \/ \E ret \in {0, 1}, str \in HookStrs :
          /\ ret # 1 => str = <<>>
          /\ CloseUnlock(ret, <<"kPwd", str>>, <<>>)
    \/ \E choice \in ExecRets : CloseWrongCred(choice)

\* the whole layer: the notification handlers and the hook
NextLayer == NextHandlers \/ NextHook

\* the three presenters called with every int, and the three handlers that
\* call them with the codes of the daemon
NextPresenters ==
    \/ \E p \in Presenters, code \in Ints : CallPresenter(p, code)
    \/ \E dev \in Devs, code \in Codes : onPreencryptResult(dev, code)
    \/ \E dev \in Devs, code \in Codes : onDecryptResult(dev, code)
    \/ \E dev \in Devs, code \in Codes : onChgPassphraseResult(dev, code)
    \/ \E choice \in ExecRets : CloseOutcome(choice)
    \/ \E choice \in ExecRets : CloseReboot(choice)

\* the four result notifications with every code, and their modals
NextResults ==
    \/ \E dev \in Devs, code \in Codes : onEncryptResult(dev, code)
    \/ \E dev \in Devs, code \in Codes : onDecryptResult(dev, code)
    \/ \E dev \in Devs, code \in Codes : onPreencryptResult(dev, code)
    \/ \E dev \in Devs, code \in Codes : onChgPassphraseResult(dev, code)
    \/ \E choice \in ExecRets : CloseOutcome(choice)
    \/ \E choice \in ExecRets : CloseReboot(choice)

Next == NextDaemon \/ NextCursor \/ NextAcquire

Spec == Init /\ [][Next]_vars

SpecDaemon == Init /\ [][NextDaemon]_vars

SpecRegistry == Init /\ [][NextRegistry]_vars

SpecAcquire == Init /\ [][NextAcquire]_vars

SpecDecrypt == Init /\ [][NextDecrypt]_vars

SpecLayer == Init /\ [][NextLayer]_vars

SpecPresenters == Init /\ [][NextPresenters]_vars

SpecResults == Init /\ [][NextResults]_vars

\* the handlers and the code that sets the busy cursor
SpecCursor == Init /\ [][NextHandlers \/ NextCursor]_vars

(* ------------------------------ registry claims ----------------------- *)

Registered(map, dev) == \E e \in map : e[1] = dev

Objects(dlgs) == {i \in Ids : dlgs[i].st # "free"}

OnePerDevice(map) == \A e1 \in map, e2 \in map : e1[1] = e2[1] => e1 = e2

\* no registry entry names a dialog that is destroyed
NoDanglingEntry ==
    \A e \in encryptDialogs \cup decryptDialogs : Alive(e[2])

\* what a progress notification for dev does to its registry: map and dlgs
\* before, mapN and dlgsN after
ProgressEffect(map, mapN, dlgs, dlgsN, dev, progress) ==
    IF Registered(map, dev)
    THEN \* the entry stays, no dialog is constructed, the dialog the entry
         \* names shows the progress
         /\ mapN = map
         /\ Objects(dlgsN) = Objects(dlgs)
         /\ \A e \in map :
               e[1] = dev =>
                   /\ dlgsN[e[2]].st # "free"
                   /\ dlgsN[e[2]].progress = progress
                   /\ dlgsN[e[2]].visible
    ELSE \* exactly one entry is added, for a dialog constructed in this step
         \E id \in Ids :
            /\ mapN = map \cup {<<dev, id>>}
            /\ id \notin Objects(dlgs)
            /\ Objects(dlgsN) = Objects(dlgs) \cup {id}
            /\ dlgsN[id].progress = progress
            /\ dlgsN[id].visible

\* every progress notification of this step returns and has ProgressEffect on
\* its own registry, leaves the other registry alone, and no registry holds
\* two dialogs for one device after it
ProgressStep ==
    /\ \A dev \in Devs, progress \in Progress :
          onEncryptProgress(dev, progress) =>
              /\ ~crashed'
              /\ ProgressEffect(encryptDialogs, encryptDialogs',
                                dialogs, dialogs', dev, progress)
              /\ decryptDialogs' = decryptDialogs
    /\ \A dev \in Devs, progress \in Progress :
          onDecryptProgress(dev, progress) =>
              /\ ~crashed'
              /\ ProgressEffect(decryptDialogs, decryptDialogs',
                                dialogs, dialogs', dev, progress)
              /\ encryptDialogs' = encryptDialogs
    /\ OnePerDevice(encryptDialogs') /\ OnePerDevice(decryptDialogs')

\* C1: a progress notification for a (kind, device) without a registry entry
\* creates exactly one dialog entry for it; a progress notification for a
\* (kind, device) that has an entry leaves the entry as it is, constructs no
\* dialog and updates the dialog of that entry; no registry ever holds two
\* dialogs for one device.
C1_ProgressCreatesOneEntry == [][ProgressStep]_vars

\* the same from the states in which no entry names a destroyed dialog
ProgressCreatesOneEntryWhileLive == [][NoDanglingEntry => ProgressStep]_vars

\* a progress notification has just found the entry of its device and
\* updated its dialog, while the other device has an entry of its own
C1_Witness ==
    /\ last = "updated"
    /\ \E e \in decryptDialogs : dialogs[e[2]].progress = 1
    /\ Cardinality(encryptDialogs \cup decryptDialogs) = 2
    /\ ~crashed

\* what a result notification for dev does to its registry
ResultEffect(map, mapN, dev) ==
    /\ ~Registered(mapN, dev)
    /\ mapN = {e \in map : e[1] # dev}
    /\ ~Registered(map, dev) => mapN = map

\* every result notification of this step returns and has ResultEffect on
\* its own registry
ResultStep ==
    /\ \A dev \in Devs, code \in RegistryCodes :
          onEncryptResult(dev, code) =>
              /\ ~crashed'
              /\ ResultEffect(encryptDialogs, encryptDialogs', dev)
    /\ \A dev \in Devs, code \in RegistryCodes :
          onDecryptResult(dev, code) =>
              /\ ~crashed'
              /\ ResultEffect(decryptDialogs, decryptDialogs', dev)

\* C2: an Encrypt (Decrypt) result notification leaves the Encrypt (Decrypt)
\* registry without an entry for its device and with the entries of the other
\* devices unchanged; when there is no entry (a second result, or none ever
\* created) it changes nothing in the registry; it is no error.
C2_ResultRemovesEntry == [][ResultStep]_vars

\* the same from the states in which no entry names a destroyed dialog
ResultRemovesEntryWhileLive == [][NoDanglingEntry => ResultStep]_vars

\* a result notification has just removed the entry of its device and the
\* entry of the other device is still there
C2_Witness ==
    /\ last = "removed"
    /\ Cardinality(encryptDialogs) = 1
    /\ decryptDialogs = {}
    /\ ~crashed

\* C3: hasEnDecryptJob() is true iff one of the two registries has an entry;
\* it is false in the initial state.
C3_HasJobIffRegistered ==
    hasEnDecryptJob <=>
        \E dev \in Devs : Registered(encryptDialogs, dev)
                          \/ Registered(decryptDialogs, dev)

\* only the Decrypt registry has an entry and the query answers true
C3_Witness ==
    /\ encryptDialogs = {}
    /\ decryptDialogs # {}
    /\ hasEnDecryptJob

\* C4: when every (kind, device) that received a progress notification has
\* received its result notification since, the handler is running, both
\* registries are empty and hasEnDecryptJob() is false.
C4_AllResultsInNoJob ==
    inflight = {} =>
        /\ ~crashed
        /\ encryptDialogs = {}
        /\ decryptDialogs = {}
        /\ ~hasEnDecryptJob

\* the same in the states in which the process has not died
AllResultsInNoJobWhileRunning ==
    (inflight = {} /\ ~crashed) =>
        /\ encryptDialogs = {}
        /\ decryptDialogs = {}
        /\ ~hasEnDecryptJob

\* an operation has shown progress and its result has removed the entry
C4_Witness ==
    /\ last = "removed"
    /\ inflight = {}
    /\ ~hasEnDecryptJob
    /\ ~crashed

\* C5: no registry maps a device to a dialog that is destroyed: a dialog's
\* destruction removes its entry, in the Encrypt and in the Decrypt registry.
C5_NoDestroyedDialogRegistered ==
    \A e \in encryptDialogs \cup decryptDialogs : dialogs[e[2]].st # "free"

(* ------------------------- acquisition claims ------------------------- *)

\* onAcquireDevicePwd has returned true
Returned == acq.pc = "done" /\ acq.ret

\* C6: whenever onAcquireDevicePwd returns true, exactly one of "the
\* passphrase is non-empty" and "cancelled is true" holds.
C6_ExactlyOneOfPassphraseOrCancelled ==
    Returned => ((acq.pwd # <<>>) <=> ~acq.cancelled)

\* C7: for PasswordOnly, whatever the slots held: accepted with a non-empty
\* text t, the flow returns passphrase = t and cancelled = false; dismissed or
\* rejected, it returns passphrase = empty and cancelled = true.
C7_PasswordOnlyResult ==
    (Returned /\ acq.type = "kPasswordOnly") =>
        /\ (~acq.dismissed /\ acq.key[2] # <<>>) =>
               (acq.pwd = acq.key[2] /\ ~acq.cancelled)
        /\ acq.dismissed => (acq.pwd = <<>> /\ acq.cancelled)

\* C8: for TPMOnly the passphrase returned is the result of the one TPM
\* derivation, called with the device and an empty auxiliary input; no unlock
\* dialog is shown; the branch leaves the cancelled flag as it found it, and
\* the flag changes only in the post-check, on an empty derivation result.
C8_TPMOnlyResult ==
    (Returned /\ acq.type = "kTPMOnly") =>
        /\ Len(acq.tpm) = 1
        /\ acq.tpm[1].dev = acq.dev
        /\ acq.tpm[1].aux = <<>>
        /\ acq.pwd = acq.tpm[1].out
        /\ acq.prompts = 0
        /\ acq.branchCancelled = acq.canc0
        /\ acq.cancelled # acq.canc0 =>
               (acq.cancelled /\ acq.tpm[1].out = <<>> /\ acq.advisories = 1)

\* the TPM derivation gave a passphrase and the flow returned it, cancelled
\* still false
C8_Witness ==
    /\ Returned
    /\ acq.type = "kTPMOnly"
    /\ acq.pwd # <<>>
    /\ ~acq.cancelled

\* C9: for each of the three schemes: a branch that yields an empty
\* passphrase with cancelled not set makes the flow show exactly one advisory
\* and return cancelled = true; a branch that yields a non-empty passphrase,
\* or a user who cancelled, makes it show no advisory.
C9_PostCheck ==
    Returned =>
        /\ (acq.branchPwd = <<>> /\ ~acq.branchCancelled) =>
               (acq.advisories = 1 /\ acq.cancelled)
        /\ (acq.branchPwd # <<>> \/ acq.dismissed) => acq.advisories = 0

\* the TPM derivation with a PIN gave nothing: one advisory, cancelled forced
C9_Witness ==
    /\ Returned
    /\ acq.type = "kTPMAndPIN"
    /\ ~acq.dismissed
    /\ acq.key[1] = "kPin"
    /\ acq.advisories = 1
    /\ acq.cancelled

\* C10: onAcquireDevicePwd returns false exactly when a slot is null or the
\* key type is none of the three, and then it has shown no dialog, called no
\* TPM derivation and left both slots as they were.
C10_RefusedCalls ==
    acq.pc = "done" =>
        /\ ~acq.ret <=>
               \/ acq.pwdNull
               \/ acq.cancNull
               \/ acq.type \notin {"kPasswordOnly", "kTPMOnly", "kTPMAndPIN"}
        /\ ~acq.ret =>
               /\ acq.prompts = 0
               /\ acq.advisories = 0
               /\ acq.tpm = <<>>
               /\ acq.pwd = acq.pwd0
               /\ acq.cancelled = acq.canc0

\* a call with both slots given and a key type that is none of the three
\* has returned false
C10_Witness ==
    /\ acq.pc = "done"
    /\ ~acq.ret
    /\ acq.type = "kUnknown"
    /\ ~acq.pwdNull /\ ~acq.cancNull
    /\ acq.pwd0 # <<>> /\ acq.canc0

\* C19: for TPMAndPIN: accepted with a PIN, the passphrase is the result of
\* the TPM derivation called with the device and that PIN; accepted with the
\* fallback credential, the passphrase is that credential verbatim and the
\* TPM derivation is not called; dismissed, cancelled is true, the passphrase
\* is empty, the TPM derivation is not called and no advisory is shown.
C19_TPMAndPINResult ==
    (Returned /\ acq.type = "kTPMAndPIN") =>
        /\ (~acq.dismissed /\ acq.key[1] = "kPin") =>
               /\ Len(acq.tpm) = 1
               /\ acq.tpm[1].dev = acq.dev
               /\ acq.tpm[1].aux = acq.key[2]
               /\ acq.pwd = acq.tpm[1].out
        /\ (~acq.dismissed /\ acq.key[1] # "kPin") =>
               /\ acq.pwd = acq.key[2]
               /\ acq.tpm = <<>>
        /\ acq.dismissed =>
               /\ acq.cancelled
               /\ acq.pwd = <<>>
               /\ acq.tpm = <<>>
               /\ acq.advisories = 0

\* the prompt was accepted with a recovery key, and the flow returned that
\* key with no TPM derivation and no advisory
C19_Witness ==
    /\ Returned
    /\ acq.type = "kTPMAndPIN"
    /\ ~acq.dismissed
    /\ acq.key[1] = "kRec"
    /\ acq.key[2] # <<>>
    /\ acq.pwd = acq.key[2]
    /\ acq.tpm = <<>>
    /\ acq.advisories = 0

\* the prompt was accepted with a PIN and the flow returned what the TPM
\* derivation made of it
TPMAndPINAcceptedWithPIN ==
    /\ Returned
    /\ acq.type = "kTPMAndPIN"
    /\ acq.key = <<"kPin", <<"a">>>>
    /\ acq.pwd = <<"b">>

\* the prompt was dismissed with the cancelled slot false on entry
TPMAndPINDismissed ==
    /\ Returned
    /\ acq.type = "kTPMAndPIN"
    /\ acq.dismissed
    /\ ~acq.canc0

(* --------------------------- presentation claims ---------------------- *)

\* every Decrypt result notification of this step returns, leaves no entry
\* for its device in the Decrypt registry at the moment its dialog opens, and
\* opens the reboot confirmation for the negated RebootRequired code, one
\* plain outcome dialog for every other code
DecryptResultStep ==
    \A dev \in Devs, code \in Codes :
        onDecryptResult(dev, code) =>
            /\ ~crashed'
            /\ ~Registered(decryptDialogs', dev)
            /\ modalStack' = Append(modalStack, emitted'.dialog.kind)
            /\ emitted'.dialog.kind =
                   IF code = 0 - kRebootRequired THEN "reboot" ELSE "outcome"
            /\ code = 0 - kRebootRequired =>
                   emitted'.dialog.title = "Decrypt device"
            /\ code # 0 - kRebootRequired =>
                   emitted'.dialog.title \in {"Decrypt done", "Decrypt disk",
                                              "Decrypt failed"}

\* C11: on a Decrypt result notification, for every code: the negated
\* RebootRequired code shows the reboot confirmation and no plain outcome
\* dialog, every other code shows the plain outcome dialog and no reboot
\* confirmation; the entry of the device is out of the Decrypt registry when
\* the dialog is presented.
C11_DecryptResultDialog == [][DecryptResultStep]_vars

\* the same from the states in which no entry names a destroyed dialog
DecryptResultDialogWhileLive == [][NoDanglingEntry => DecryptResultStep]_vars

\* a Decrypt result with the RebootRequired code has removed the entry of its
\* device and the reboot confirmation is open
C11_Witness ==
    /\ last = "removed"
    /\ decryptDialogs = {}
    /\ emitted.dialog = RebootOnDecryptedDialog
    /\ modalStack = <<"reboot">>
    /\ ~crashed

\* a reboot confirmation that closes in this step sends one RequestReboot
\* for "Reboot now" (exec() = 1) and none otherwise, and a step that sends a
\* RequestReboot is a reboot confirmation closing with "Reboot now"
RebootStep ==
    /\ \A choice \in ExecRets :
          CloseReboot(choice) =>
              emitted'.reboot = IF choice = 1 THEN 1 ELSE 0
    /\ emitted'.reboot # 0 =>
          /\ modalStack # <<>>
          /\ Top = "reboot"
          /\ CloseReboot(1)

\* C12: each reboot confirmation sends exactly one RequestReboot when the
\* user chooses "Reboot now" and none when the user chooses "Reboot later"
\* or dismisses it; nothing else in the layer sends a reboot request.
C12_RebootRequestOnlyOnRebootNow == [][RebootStep]_vars

\* a reboot confirmation opened while another modal was open has just been
\* closed with "Reboot now"
C12_Witness ==
    /\ emitted.reboot = 1
    /\ Len(modalStack) = 1

\* the step opens exactly one modal dialog, an outcome advisory or a reboot
\* confirmation, and that is the dialog it presents
OpensOneDialog ==
    /\ emitted'.dialog.kind \in {"outcome", "reboot"}
    /\ modalStack' = Append(modalStack, emitted'.dialog.kind)

\* every result notification of this step returns having opened one dialog;
\* every progress notification of this step opens none
PresentationStep ==
    /\ \A dev \in Devs, code \in Codes :
          (\/ onPreencryptResult(dev, code)
           \/ onEncryptResult(dev, code)
           \/ onDecryptResult(dev, code)
           \/ onChgPassphraseResult(dev, code)) =>
              (~crashed' /\ OpensOneDialog)
    /\ \A dev \in Devs, progress \in Progress :
          (onEncryptProgress(dev, progress) \/ onDecryptProgress(dev, progress)) =>
              (modalStack' = modalStack /\ emitted'.dialog = NoDialog)

\* C13: every result notification (pre-encrypt, encrypt, decrypt,
\* change-passphrase), for every code, presents exactly one dialog, an outcome
\* advisory or a reboot confirmation; a progress notification presents no
\* advisory.
C13_OneDialogPerResult == [][PresentationStep]_vars

\* the same from the states in which no entry names a destroyed dialog
OneDialogPerResultWhileLive == [][NoDanglingEntry => PresentationStep]_vars

\* a result notification handled while a modal was open has opened the second
\* dialog, an error advisory carrying the raw code
C13_Witness ==
    /\ Len(modalStack) = 2
    /\ emitted.dialog.kind = "outcome"
    /\ emitted.dialog.type = kError
    /\ emitted.dialog.args # <<>>
    /\ ~crashed

\* the codes a presenter has a branch of its own for, beside Success and
\* UserCancelled
Dedicated(p, code) ==
    \/ p = "showDecryptError" /\ 0 - code = kErrorWrongPassphrase
    \/ p = "showChgPwdError" /\ 0 - code = kErrorChangePassphraseFailed

\* every call of a presenter in this step shows a dialog; it is
\* Informational exactly when the negated code is kSuccess or kUserCancelled
\* and Error for every other code, and outside the dedicated cases an Error dialog is the
\* generic failure with the raw code
PresenterStep ==
    \A p \in Presenters, code \in Ints :
        CallPresenter(p, code) =>
            LET d == emitted'.dialog
                informational == (0 - code) \in {kSuccess, kUserCancelled}
            IN  /\ d.kind = "outcome"
                /\ d.title # ""
                /\ d.type = IF informational THEN kInfo ELSE kError
                /\ (informational \/ Dedicated(p, code)) => d.args = <<>>
                /\ ~(informational \/ Dedicated(p, code)) => d.args = <<code>>

\* C14: the mapping of the three presenters is defined for every int code;
\* its severity is Informational exactly when the negated code is Success or
\* UserCancelled and Error otherwise; apart from the dedicated cases every
\* other code takes the generic failure branch, which carries the raw code.
C14_OutcomeMapping == [][PresenterStep]_vars

\* showDecryptError has presented the wrong-passphrase error while another
\* modal was open
C14_Witness ==
    /\ emitted.dialog = showDecryptError(0 - kErrorWrongPassphrase)
    /\ emitted.dialog.type = kError
    /\ Len(modalStack) = 2

\* every Pre-encrypt result notification of this step opens the reboot
\* confirmation for the success code and, for every other code, the advisory
\* of showPreEncryptError, which is not its success case; and an advisory
\* that closes in this step sends no reboot request
PreencryptStep ==
    /\ \A dev \in Devs, code \in Codes :
          onPreencryptResult(dev, code) =>
              /\ modalStack' = Append(modalStack, emitted'.dialog.kind)
              /\ code = kSuccess => emitted'.dialog = RebootOnPreencryptedDialog
              /\ code # kSuccess =>
                    /\ emitted'.dialog.kind = "outcome"
                    /\ emitted'.dialog = showPreEncryptError(code)
                    /\ emitted'.dialog # showPreEncryptError(kSuccess)
    /\ \A choice \in ExecRets : CloseOutcome(choice) => emitted'.reboot = 0

\* C16: on a Pre-encrypt result notification the success code shows the
\* reboot confirmation and no outcome advisory; every other code shows the
\* mapped pre-encrypt advisory and no reboot confirmation, so no reboot
\* request follows; the success case of the pre-encrypt mapping is never
\* reached from this handler.
C16_PreencryptResultDialog == [][PreencryptStep]_vars

\* a Pre-encrypt result with the success code has opened the reboot
\* confirmation on top of the advisory of a failed one
C16_Witness ==
    /\ modalStack = <<"outcome", "reboot">>
    /\ emitted.dialog = RebootOnPreencryptedDialog

(* ------------------------------ cursor claims ------------------------- *)

\* the step has called QApplication::restoreOverrideCursor once
CursorRestored == overrideCursor' = RestoreOverrideCursor(overrideCursor)

\* every notification handled in this step has restored the cursor
CursorStep ==
    /\ \A dev \in Devs, code \in LayerCodes :
          (\/ onPreencryptResult(dev, code)
           \/ onEncryptResult(dev, code)
           \/ onDecryptResult(dev, code)
           \/ onChgPassphraseResult(dev, code)) => CursorRestored
    /\ \A dev \in Devs, progress \in Progress :
          (onEncryptProgress(dev, progress) \/ onDecryptProgress(dev, progress)) =>
              CursorRestored

\* C15: each of the six notification handlers clears the busy cursor before
\* it shows a dialog, on every invocation, a progress notification for a
\* device that has a registry entry included.
C15_EveryHandlerRestoresCursor == [][CursorStep]_vars

\* what the handlers do: the result handlers restore the cursor on every
\* invocation, the progress handlers when they construct the dialog
CursorRestoredBeforeNewDialog ==
    [][ /\ \A dev \in Devs, code \in LayerCodes :
            (\/ onPreencryptResult(dev, code)
             \/ onEncryptResult(dev, code)
             \/ onDecryptResult(dev, code)
             \/ onChgPassphraseResult(dev, code)) =>
                (~crashed' => CursorRestored)
        /\ \A dev \in Devs, progress \in Progress :
            /\ onEncryptProgress(dev, progress) =>
                  IF Registered(encryptDialogs, dev)
                  THEN overrideCursor' = overrideCursor
                  ELSE CursorRestored
            /\ onDecryptProgress(dev, progress) =>
                  IF Registered(decryptDialogs, dev)
                  THEN overrideCursor' = overrideCursor
                  ELSE CursorRestored
      ]_vars

\* a progress notification has updated and shown the dialog of its device
\* and the busy cursor is still set
C15_Witness ==
    /\ last = "updated"
    /\ overrideCursor > 0
    /\ \E e \in encryptDialogs \cup decryptDialogs : dialogs[e[2]].visible
    /\ ~crashed

(* ------------------------------ frame claims -------------------------- *)

\* the entries of every device but dev are the same in map and mapN
OnlyEntryOf(map, mapN, dev) ==
    {e \in mapN : e[1] # dev} = {e \in map : e[1] # dev}

RegistriesUnchanged ==
    /\ encryptDialogs' = encryptDialogs
    /\ decryptDialogs' = decryptDialogs

\* what each handler of this step leaves alone
FrameStep ==
    /\ \A dev \in Devs :
          /\ (\/ \E progress \in Progress : onEncryptProgress(dev, progress)
               \/ \E code \in Codes : onEncryptResult(dev, code)) =>
                  /\ decryptDialogs' = decryptDialogs
                  /\ OnlyEntryOf(encryptDialogs, encryptDialogs', dev)
          /\ (\/ \E progress \in Progress : onDecryptProgress(dev, progress)
               \/ \E code \in Codes : onDecryptResult(dev, code)) =>
                  /\ encryptDialogs' = encryptDialogs
                  /\ OnlyEntryOf(decryptDialogs, decryptDialogs', dev)
          /\ (\E code \in Codes : \/ onPreencryptResult(dev, code)
                                   \/ onChgPassphraseResult(dev, code)) =>
                  RegistriesUnchanged
    \* a modal is closed: the outcome dialog, the reboot confirmation, the
    \* prompt or the advisory of the hook
    /\ Len(modalStack') < Len(modalStack) => RegistriesUnchanged
    \* a step of the hook
    /\ acq' # acq => RegistriesUnchanged

\* C17: the Encrypt handlers never change the Decrypt registry and the
\* Decrypt handlers never change the Encrypt registry; the Pre-encrypt and
\* Change-passphrase handlers, the reboot confirmation and the acquisition
\* flow change neither; every handler changes at most the entry of the
\* device named in its notification.
C17_Frame == [][FrameStep]_vars

\* an Encrypt result has removed the entry of its device while the other
\* device keeps its entry in the Decrypt registry, after the hook returned
C17_Witness ==
    /\ last = "removed"
    /\ emitted.dialog.title = "Encrypt done"
    /\ encryptDialogs = {}
    /\ Registered(decryptDialogs, "/dev/sdb1")
    /\ ~Registered(decryptDialogs, "/dev/sda1")
    /\ acq.pc = "done"

(* ------------------------- nested dispatch claims --------------------- *)

\* a handler is suspended inside a modal
Suspended == modalStack # <<>>

\* what a progress notification for dev does to its registry when no other
\* handler is suspended: nothing if dev has an entry, one new entry if not
SequentialProgress(map, mapN, dev) ==
    IF Registered(map, dev) THEN mapN = map
    ELSE \E id \in Ids : mapN = map \cup {<<dev, id>>}

\* what a result notification for dev does to its registry when no other
\* handler is suspended: the entry of dev is gone, the others stay
SequentialResult(map, mapN, dev) == mapN = {e \in map : e[1] # dev}

\* a handler that runs while another one is suspended does to the registries
\* what it does when none is, or ends the process as it may when none is
NestedStep ==
    Suspended =>
        \A dev \in Devs :
            /\ (\E progress \in Progress : onEncryptProgress(dev, progress)) =>
                   \/ crashed'
                   \/ SequentialProgress(encryptDialogs, encryptDialogs', dev)
            /\ (\E progress \in Progress : onDecryptProgress(dev, progress)) =>
                   \/ crashed'
                   \/ SequentialProgress(decryptDialogs, decryptDialogs', dev)
            /\ (\E code \in Codes : onEncryptResult(dev, code)) =>
                   \/ crashed'
                   \/ SequentialResult(encryptDialogs, encryptDialogs', dev)
            /\ (\E code \in Codes : onDecryptResult(dev, code)) =>
                   \/ crashed'
                   \/ SequentialResult(decryptDialogs, decryptDialogs', dev)

\* the suspended handler resumes: its modal closes and it returns, with no
\* change to the registries or to the dialogs
ResumeStep ==
    Len(modalStack') < Len(modalStack) =>
        /\ RegistriesUnchanged
        /\ dialogs' = dialogs

\* C18: handlers that run nested while a handler is suspended in a modal
\* (outcome dialog, reboot confirmation, credential prompt) leave the
\* registries as if the handlers had run one after another: the suspended
\* handler changes the registries before it opens its modal and not after
\* the modal closes, and each registry has at most one entry per device
\* throughout.
C18_NestedDispatch ==
    [][ /\ NestedStep
        /\ ResumeStep
        /\ OnePerDevice(encryptDialogs') /\ OnePerDevice(decryptDialogs')
      ]_vars

\* the hook is suspended in the prompt for /dev/sda1, and nested in it an
\* Encrypt result for /dev/sdb1 has removed that entry and is suspended in
\* its outcome dialog, while /dev/sda1 keeps its entry
C18_Witness ==
    /\ modalStack = <<"unlock", "outcome">>
    /\ acq.pc = "prompt" /\ acq.dev = "/dev/sda1"
    /\ last = "removed"
    /\ emitted.dialog.title = "Encrypt done"
    /\ Registered(encryptDialogs, "/dev/sda1")
    /\ ~Registered(encryptDialogs, "/dev/sdb1")

====
